---- MODULE Spec2Model ----
(***************************************************************************)
(* Router / Data Agent / Support Agent workflow of langgraph_flow.py, run  *)
(* by run_test_scenario of main.py under recursion_limit 15.               *)
(*                                                                         *)
(* One run of the graph is modelled: AgentState is the variable `state`,   *)
(* each node function (call_router, call_data_agent, call_support_agent)   *)
(* is an operator from the state and the outputs of its collaborators (the *)
(* LLM decision functions of agents.py, the tools of mcp_server.py) to the *)
(* partial update it returns, and the compiled graph applies the update    *)
(* through the channel reducers and follows the edges of build_workflow.   *)
(* Strings are TLA+ strings; strip, upper, lower, `in`, startswith and     *)
(* split are computed character by character.                              *)
(*                                                                         *)
(* tools_map (langgraph_flow.py:27) is read as the registry from the five  *)
(* tool names of MCP_TOOLS to the functions of mcp_server.py of that name. *)
(***************************************************************************)
EXTENDS Integers, Sequences, FiniteSets, TLC

VARIABLES
    state,      \* AgentState of the run (langgraph_flow.py:13-18)
    pc,         \* node the graph runs next, or "end" / "raised" / "returned"
    step,       \* super-steps executed by app.invoke
    exc,        \* exception app.invoke raised, "none" when none
    result,     \* value returned by run_test_scenario, NoResult before it returns
    pre,        \* history: AgentState before the node executed last
    last,       \* history: what the node executed last did
    routerCalls, \* history: number of call_router invocations
    workerCalls, \* history: number of call_data_agent and call_support_agent invocations
    mcp,        \* one MCP exchange: the message, the server's response, the client's reading
    runs,       \* the AgentState, node and step count of each of several runs
    store       \* the customers table of support.db that the runs share

vars == <<state, pc, step, exc, result, pre, last, routerCalls, workerCalls,
          mcp, runs, store>>

----------------------------------------------------------------------------
(* Bounds of the exploration *)

\* Leading super-steps in which the decision functions and the tools range
\* over their full output sets; later super-steps range over the core sets.
MaxVaried == 4

----------------------------------------------------------------------------
(* Python strings *)

LowerAlpha == "abcdefghijklmnopqrstuvwxyz"
UpperAlpha == "ABCDEFGHIJKLMNOPQRSTUVWXYZ"
Whitespace == {" ", "\n", "\t"}

CharAt(s, i) == SubSeq(s, i, i)

UpperChar(c) ==
    IF \E i \in 1..26 : CharAt(LowerAlpha, i) = c
    THEN CharAt(UpperAlpha, CHOOSE i \in 1..26 : CharAt(LowerAlpha, i) = c)
    ELSE c

LowerChar(c) ==
    IF \E i \in 1..26 : CharAt(UpperAlpha, i) = c
    THEN CharAt(LowerAlpha, CHOOSE i \in 1..26 : CharAt(UpperAlpha, i) = c)
    ELSE c

RECURSIVE Upper(_)
Upper(s) == IF Len(s) = 0 THEN "" ELSE UpperChar(CharAt(s, 1)) \o Upper(Tail(s))

RECURSIVE Lower(_)
Lower(s) == IF Len(s) = 0 THEN "" ELSE LowerChar(CharAt(s, 1)) \o Lower(Tail(s))

RECURSIVE LStrip(_)
LStrip(s) ==
    IF Len(s) > 0 /\ CharAt(s, 1) \in Whitespace THEN LStrip(Tail(s)) ELSE s

RECURSIVE RStrip(_)
RStrip(s) ==
    IF Len(s) > 0 /\ CharAt(s, Len(s)) \in Whitespace
    THEN RStrip(SubSeq(s, 1, Len(s) - 1))
    ELSE s

Strip(s) == RStrip(LStrip(s))

\* sub in s
Contains(s, sub) ==
    \E i \in 1..(Len(s) - Len(sub) + 1) : SubSeq(s, i, i + Len(sub) - 1) = sub

StartsWith(s, prefix) ==
    Len(s) >= Len(prefix) /\ SubSeq(s, 1, Len(prefix)) = prefix

\* s.split(":", 1)[1], for an s that contains ":"
AfterFirstColon(s) ==
    LET i == CHOOSE k \in 1..Len(s) :
                 /\ CharAt(s, k) = ":"
                 /\ \A j \in 1..(k - 1) : CharAt(s, j) # ":"
    IN  SubSeq(s, i + 1, Len(s))

----------------------------------------------------------------------------
(* Python dicts with string keys *)

EmptyDict == [k \in {} |-> ""]

\* The key set in a fresh dict instead of a copy of d.
PutAlone(d, key, value) == [k \in {key} |-> value]

Put(d, key, value) ==
    [k \in (DOMAIN d) \cup {key} |-> IF k = key THEN value ELSE d[k]]

Pop(d, key) == [k \in (DOMAIN d) \ {key} |-> d[k]]

Get(d, key, default) == IF key \in DOMAIN d THEN d[key] ELSE default

----------------------------------------------------------------------------
(* Inputs: the query and the outputs of the collaborators *)

\* Queries of main.py's test_scenarios, and one that mentions tickets in
\* capitals without mentioning open ones.
Queries ==
    { "Get customer information for ID 5",
      "Show me all active customers who have open tickets",
      "List customers with their TICKET counts" }

\* Raw texts the router LLM may return (RouterAgent.invoke).
RouterOutputs ==
    { "DATA_AGENT", "SUPPORT_AGENT", "COMPLETE", "ESCALATE",
      " complete\n", "I cannot decide.", "" }

RouterCore == { "DATA_AGENT", "SUPPORT_AGENT", "COMPLETE" }

\* Raw texts the support LLM may return (SupportAgent.invoke).
SupportOutputs ==
    { "ROUTING_REQUEST: NEED_PROFILE",
      "\n ROUTING_REQUEST: need_customer_profile ",
      "ROUTING_REQUEST: NEED_BILLING_INFO",
      "ROUTING_REQUEST:",
      " Customer 5 is active.\n",
      "" }

SupportCore == { "ROUTING_REQUEST: NEED_PROFILE", " Customer 5 is active.\n" }

\* What the data LLM may return (BaseAgent.invoke with bound tools): a message
\* without tool calls, or a message whose first tool call is name(args).
NoToolCall == [has_tool_call |-> FALSE, name |-> "", args |-> EmptyDict]

ToolCall(name, args) == [has_tool_call |-> TRUE, name |-> name, args |-> args]

DataResponses ==
    { NoToolCall,
      ToolCall("get_customer", [customer_id |-> 5]),
      ToolCall("get_customer_history", [customer_id |-> 5]),
      ToolCall("list_customers", EmptyDict),
      ToolCall("list_customers", [status |-> "active"]),
      ToolCall("list_customers", [customer_id |-> 5]),
      ToolCall("delete_customer", [customer_id |-> 5]) }

DataCore == { ToolCall("get_customer", [customer_id |-> 5]) }

\* The customers table before any run: the status column of customer 5, and
\* for the history the run that wrote it last (0: none).
InitialStore == [status |-> "active", writer |-> 0]

\* What the database gives a tool once its arguments bind: whether the
\* connection and the statements succeed (else the tool returns
\* {"success": False, "error": ...}), and the row of the table.
Database(up, table) == [up |-> up, status |-> table.status]

DbOutcomes == { Database(up, InitialStore) : up \in BOOLEAN }

DbCore == { Database(TRUE, InitialStore) }

RouterOutputsAt(n) == IF n < MaxVaried THEN RouterOutputs ELSE RouterCore
SupportOutputsAt(n) == IF n < MaxVaried THEN SupportOutputs ELSE SupportCore
DataResponsesAt(n) == IF n < MaxVaried THEN DataResponses ELSE DataCore
DbOutcomesAt(n) == IF n < MaxVaried THEN DbOutcomes ELSE DbCore

----------------------------------------------------------------------------
(* Tools of mcp_server.py *)

\* Parameters of each tool function: all of them, and those without default.
ToolParams ==
    [ get_customer         |-> [all |-> {"customer_id"}, required |-> {"customer_id"}],
      list_customers       |-> [all |-> {"status", "limit"}, required |-> {}],
      update_customer      |-> [all |-> {"customer_id", "data"},
                                required |-> {"customer_id", "data"}],
      create_ticket        |-> [all |-> {"customer_id", "issue", "priority"},
                                required |-> {"customer_id", "issue"}],
      get_customer_history |-> [all |-> {"customer_id"}, required |-> {"customer_id"}] ]

tools_map == DOMAIN ToolParams

\* tool(**args) binds: no unexpected keyword, no missing required parameter.
\* When it does not, Python raises TypeError before the tool body runs.
Binds(name, args) ==
    /\ DOMAIN args \subseteq ToolParams[name].all
    /\ ToolParams[name].required \subseteq DOMAIN args

\* The dict a tool returns: every tool body is wrapped in try/except and
\* returns {"success": True, ...} or {"success": False, "error": ...}.
\* The rows are those the database gives; one representative row stands
\* for them, and of its columns the status, the one column the tools both
\* read and write here.
ToolReturn(name, args, db) ==
    IF ~db.up
    THEN [success |-> FALSE, error |-> name \o " failed"]
    ELSE CASE name = "get_customer" ->
                [success |-> TRUE,
                 customer |-> [id |-> args.customer_id, status |-> db.status]]
           [] name = "list_customers" ->
                [success |-> TRUE, count |-> 1, customers |-> <<[id |-> 1]>>]
           [] name = "update_customer" ->
                IF "status" \in DOMAIN args.data
                THEN [success |-> TRUE,
                      customer |-> [id |-> args.customer_id,
                                    status |-> args.data.status]]
                ELSE [success |-> FALSE, error |-> "No valid fields to update"]
           [] name = "create_ticket" ->
                [success |-> TRUE, ticket |-> [customer_id |-> args.customer_id]]
           [] name = "get_customer_history" ->
                [success |-> TRUE, count |-> 1,
                 tickets |-> <<[customer_id |-> args.customer_id]>>]

\* A call tool(**args): raises TypeError or returns the tool's dict.
Invoke(name, args, db) ==
    IF Binds(name, args)
    THEN [raised |-> FALSE, value |-> ToolReturn(name, args, db), error |-> ""]
    ELSE [raised |-> TRUE, value |-> EmptyDict, error |-> "TypeError"]

\* Iterating a dict yields its keys.
IterateDict(d) == DOMAIN d

IsError(data) == "error" \in DOMAIN data /\ "success" \notin DOMAIN data

----------------------------------------------------------------------------
(* AgentState and the channel reducers *)

StateKeys ==
    {"query", "next_action", "customer_context", "intermediate_steps",
     "final_response"}

initial_state(query) ==
    [ query              |-> query,
      customer_context   |-> EmptyDict,
      intermediate_steps |-> <<>>,
      next_action        |-> "START",
      final_response     |-> "" ]

\* Every channel overwritten, intermediate_steps too.
ReduceOverwrite(key, old, new) == new

\* A node returns a partial update. intermediate_steps is annotated with
\* operator.add, so its update is appended; every other key is overwritten.
Reduce(key, old, new) == IF key = "intermediate_steps" THEN old \o new ELSE new

\* The returned dict taken as the whole state: the keys a node does not
\* return reset to their initial value.
ApplyUpdateReplace(st, update) ==
    [k \in StateKeys |->
        IF k \in DOMAIN update
        THEN Reduce(k, st[k], update[k])
        ELSE initial_state(st.query)[k]]

ApplyUpdate(st, update) ==
    [k \in StateKeys |->
        IF k \in DOMAIN update THEN Reduce(k, st[k], update[k]) ELSE st[k]]

\* What a node function did: the update it returned, or the exception it
\* raised; and, for the history variables, the return path it took, whether
\* the soft decision function was consulted, and the tool calls it made.
NodeReturn(update, path, consulted, calls) ==
    [ raised |-> FALSE, error |-> "", update |-> update, path |-> path,
      consulted |-> consulted, calls |-> calls ]

NodeRaise(error, path, calls) ==
    [ raised |-> TRUE, error |-> error, update |-> EmptyDict, path |-> path,
      consulted |-> FALSE, calls |-> calls ]

\* One tool call, for the history: the tool, the arguments it was called
\* with, and whether the call raised.
Called(name, args, raised) == [name |-> name, args |-> args, raised |-> raised]

----------------------------------------------------------------------------
(* Node functions of langgraph_flow.py *)

\* ESCALATE kept as an action of its own: line 57 set to ESCALATE.
ParseDecisionEscalateDistinct(router_output) ==
    LET clean_output == Upper(Strip(router_output))
    IN  IF Contains(clean_output, "DATA_AGENT") THEN "DATA_AGENT"
        ELSE IF Contains(clean_output, "SUPPORT_AGENT") THEN "SUPPORT_AGENT"
        ELSE IF Contains(clean_output, "ESCALATE") THEN "ESCALATE"
        ELSE IF Contains(clean_output, "COMPLETE") THEN "COMPLETE"
        ELSE "SUPPORT_AGENT"

\* Unparseable output ending the run: the else branch of line 60 set to
\* COMPLETE.
ParseDecisionHalting(router_output) ==
    LET clean_output == Upper(Strip(router_output))
    IN  IF Contains(clean_output, "DATA_AGENT") THEN "DATA_AGENT"
        ELSE IF Contains(clean_output, "SUPPORT_AGENT") THEN "SUPPORT_AGENT"
        ELSE IF Contains(clean_output, "ESCALATE") THEN "SUPPORT_AGENT"
        ELSE IF Contains(clean_output, "COMPLETE") THEN "COMPLETE"
        ELSE "COMPLETE"

\* COMPLETE looked for first: the test of line 58 moved before line 52.
ParseDecisionCompleteFirst(router_output) ==
    LET clean_output == Upper(Strip(router_output))
    IN  IF Contains(clean_output, "COMPLETE") THEN "COMPLETE"
        ELSE IF Contains(clean_output, "DATA_AGENT") THEN "DATA_AGENT"
        ELSE IF Contains(clean_output, "SUPPORT_AGENT") THEN "SUPPORT_AGENT"
        ELSE IF Contains(clean_output, "ESCALATE") THEN "SUPPORT_AGENT"
        ELSE "SUPPORT_AGENT"

\* call_router, lines 51-62: the action named by the soft decision's text.
ParseDecision(router_output) ==
    LET clean_output == Upper(Strip(router_output))
    IN  IF Contains(clean_output, "DATA_AGENT") THEN "DATA_AGENT"
        ELSE IF Contains(clean_output, "SUPPORT_AGENT") THEN "SUPPORT_AGENT"
        ELSE IF Contains(clean_output, "ESCALATE") THEN "SUPPORT_AGENT"
        ELSE IF Contains(clean_output, "COMPLETE") THEN "COMPLETE"
        ELSE "SUPPORT_AGENT"

\* The soft decision consulted before the hard rule: what call_router would
\* be with the support_request test after router_agent.invoke.
call_router_soft_first(st, router_output) ==
    IF st.final_response # ""
    THEN NodeReturn([next_action |-> "COMPLETE"], "final", FALSE, <<>>)
    ELSE LET next_action == ParseDecision(router_output)
             current_context == st.customer_context
         IN  IF next_action = "SUPPORT_AGENT"
                /\ "support_request" \in DOMAIN current_context
             THEN NodeReturn(
                    [ next_action |-> "DATA_AGENT",
                      intermediate_steps |->
                        << "Router hard-rule: support_request present ("
                           \o current_context["support_request"]
                           \o ") -> DATA_AGENT" >> ],
                    "hard", TRUE, <<>>)
             ELSE NodeReturn(
                    [ next_action |-> next_action,
                      intermediate_steps |->
                        << "Router Decision: " \o next_action \o " (Raw: "
                           \o router_output \o ")" >> ],
                    "soft", TRUE, <<>>)

\* The hard rule tested before final_response: what call_router would be
\* with lines 36-37 after the support_request test.
call_router_hard_first(st, router_output) ==
    IF "support_request" \in DOMAIN st.customer_context
    THEN NodeReturn(
           [ next_action |-> "DATA_AGENT",
             intermediate_steps |->
               << "Router hard-rule: support_request present ("
                  \o st.customer_context["support_request"]
                  \o ") -> DATA_AGENT" >> ],
           "hard", FALSE, <<>>)
    ELSE IF st.final_response # ""
    THEN NodeReturn([next_action |-> "COMPLETE"], "final", FALSE, <<>>)
    ELSE LET next_action == ParseDecision(router_output)
         IN  NodeReturn(
               [ next_action |-> next_action,
                 intermediate_steps |->
                   << "Router Decision: " \o next_action \o " (Raw: "
                      \o router_output \o ")" >> ],
               "soft", TRUE, <<>>)

\* The Router consuming the request it routes on: what call_router would be
\* if the hard rule returned the context without support_request.
call_router_consumes_request(st, router_output) ==
    IF st.final_response # ""
    THEN NodeReturn([next_action |-> "COMPLETE"], "final", FALSE, <<>>)
    ELSE LET current_context == st.customer_context
         IN  IF "support_request" \in DOMAIN current_context
             THEN NodeReturn(
                    [ next_action |-> "DATA_AGENT",
                      customer_context |-> Pop(current_context, "support_request"),
                      intermediate_steps |->
                        << "Router hard-rule: support_request present ("
                           \o current_context["support_request"]
                           \o ") -> DATA_AGENT" >> ],
                    "hard", FALSE, <<>>)
             ELSE LET next_action == ParseDecision(router_output)
                  IN  NodeReturn(
                        [ next_action |-> next_action,
                          intermediate_steps |->
                            << "Router Decision: " \o next_action \o " (Raw: "
                               \o router_output \o ")" >> ],
                        "soft", TRUE, <<>>)

\* call_router(state); router_output is what router_agent.invoke returns
\* when the function reaches line 49.
call_router(st, router_output) ==
    IF st.final_response # ""
    THEN NodeReturn([next_action |-> "COMPLETE"], "final", FALSE, <<>>)
    ELSE LET current_context == st.customer_context
         IN  IF "support_request" \in DOMAIN current_context
             THEN NodeReturn(
                    [ next_action |-> "DATA_AGENT",
                      intermediate_steps |->
                        << "Router hard-rule: support_request present ("
                           \o current_context["support_request"]
                           \o ") -> DATA_AGENT" >> ],
                    "hard", FALSE, <<>>)
             ELSE LET next_action == ParseDecision(router_output)
                  IN  NodeReturn(
                        [ next_action |-> next_action,
                          intermediate_steps |->
                            << "Router Decision: " \o next_action \o " (Raw: "
                               \o router_output \o ")" >> ],
                        "soft", TRUE, <<>>)

\* No override: lines 107-112 left out.
OverridesNever(support_request, response) == FALSE

\* The override tested on the request code as written: line 107 without
\* upper().
OverridesCaseSensitive(support_request, response) ==
    /\ support_request # ""
    /\ Contains(support_request, "PROFILE")
    /\ response.name # "get_customer"
    /\ "customer_id" \in DOMAIN response.args
    /\ "get_customer" \in tools_map

\* call_data_agent, lines 107-112: the override of the chosen tool.
Overrides(support_request, response) ==
    /\ support_request # ""
    /\ Contains(Upper(support_request), "PROFILE")
    /\ response.name # "get_customer"
    /\ "customer_id" \in DOMAIN response.args
    /\ "get_customer" \in tools_map

\* The pop left out: the context returned with its support_request.
KeepRequest(ctx) == ctx

\* new_ctx.pop("support_request", None), lines 164 and 185.
ClearRequest(ctx) == Pop(ctx, "support_request")

\* call_data_agent, lines 114-168: list_customers chosen for a query that
\* mentions tickets. list_customers returns a dict, so the loop of line 127
\* runs over its keys and c["id"] subscripts a str with a str: TypeError,
\* raised outside every try block. The summary is built only for a return
\* value that iterates to nothing.
Composite(st, tool_args, db) ==
    LET ctx == st.customer_context
        active_or_filtered == Invoke("list_customers", tool_args, db)
        calls == << Called("list_customers", tool_args, active_or_filtered.raised) >>
        log_msg == "Error in list_customers: " \o active_or_filtered.error
    IN  IF active_or_filtered.raised
        THEN NodeReturn(
               [ customer_context |->
                   Put(ctx, "data_query_result", [error |-> log_msg]),
                 intermediate_steps |-> <<log_msg>> ],
               "composite_list_error", FALSE, calls)
        ELSE IF IterateDict(active_or_filtered.value) # {}
        THEN NodeRaise("TypeError", "composite", calls)
        ELSE NodeReturn(
               [ customer_context |->
                   ClearRequest(
                     Put(ctx, "data_query_result",
                         [type |-> "customer_ticket_summary", customers |-> <<>>])),
                 intermediate_steps |->
                   << "Executed list_customers + get_customer_history (composed)" >> ],
               "composite", FALSE, calls)

\* The selected tool looked up and called outside any guard: what lines
\* 170-190 would be without the membership test and the try block.
PlainUnguarded(st, tool_name, tool_args, db, path) ==
    LET ctx == st.customer_context
        called == Invoke(tool_name, tool_args, db)
    IN  IF tool_name \notin tools_map
        THEN NodeRaise("KeyError", path, <<>>)
        ELSE IF called.raised
        THEN NodeRaise(called.error, path, << Called(tool_name, tool_args, TRUE) >>)
        ELSE NodeReturn(
               [ customer_context |->
                   ClearRequest(Put(ctx, "data_query_result", called.value)),
                 intermediate_steps |-> << "Executed " \o tool_name >> ],
               path, FALSE, << Called(tool_name, tool_args, FALSE) >>)

\* call_data_agent, lines 170-190: the selected tool executed alone.
Plain(st, tool_name, tool_args, db, path) ==
    LET ctx == st.customer_context
        known == tool_name \in tools_map
        called == Invoke(tool_name, tool_args, db)
        result_data ==
            IF ~known
            THEN [error |-> "Tool " \o tool_name \o " not found in tools_map"]
            ELSE IF called.raised
            THEN [error |-> "Tool execution failed: " \o called.error]
            ELSE called.value
    IN  NodeReturn(
          [ customer_context |->
              ClearRequest(Put(ctx, "data_query_result", result_data)),
            intermediate_steps |-> << "Executed " \o tool_name >> ],
          path, FALSE,
          IF known THEN << Called(tool_name, tool_args, called.raised) >> ELSE <<>>)

\* The test of lines 91-96 left out: tool_calls[0] is read from a message
\* that has no tool call.
call_data_agent_unchecked(st, response, db) ==
    LET user_query == Lower(st.query)
        ctx == st.customer_context
        support_request == Get(ctx, "support_request", "")
    IN  IF ~response.has_tool_call
        THEN NodeRaise("IndexError", "no_tool", <<>>)
        ELSE LET override == Overrides(support_request, response)
                 tool_name == IF override THEN "get_customer" ELSE response.name
                 tool_args == IF override
                              THEN [customer_id |-> response.args.customer_id]
                              ELSE response.args
             IN  IF tool_name = "list_customers" /\ Contains(user_query, "ticket")
                 THEN Composite(st, tool_args, db)
                 ELSE Plain(st, tool_name, tool_args, db,
                            IF override THEN "override" ELSE "plain")

\* call_data_agent(state); response is what data_agent.invoke returns and
\* db what the database lets the called tool do.
call_data_agent(st, response, db) ==
    LET user_query == Lower(st.query)
        ctx == st.customer_context
        support_request == Get(ctx, "support_request", "")
    IN  IF ~response.has_tool_call
        THEN NodeReturn(
               [ customer_context |->
                   Put(ctx, "data_query_result",
                       [error |-> "Data Agent failed to choose a tool."]),
                 intermediate_steps |-> << "Data Agent did not make a tool call." >> ],
               "no_tool", FALSE, <<>>)
        ELSE LET override == Overrides(support_request, response)
                 tool_name == IF override THEN "get_customer" ELSE response.name
                 tool_args == IF override
                              THEN [customer_id |-> response.args.customer_id]
                              ELSE response.args
             IN  IF tool_name = "list_customers" /\ Contains(user_query, "ticket")
                 THEN Composite(st, tool_args, db)
                 ELSE Plain(st, tool_name, tool_args, db,
                            IF override THEN "override" ELSE "plain")

\* The raw text used as returned: what call_support_agent would be without
\* the strip() of line 197.
call_support_agent_unstripped(st, text) ==
    LET context == st.customer_context
        raw_output == text
    IN  IF StartsWith(raw_output, "ROUTING_REQUEST:")
        THEN LET request_code == Strip(AfterFirstColon(raw_output))
             IN  NodeReturn(
                   [ customer_context |-> Put(context, "support_request", request_code),
                     next_action |-> "ROUTER",
                     intermediate_steps |->
                       << "Support requested data: " \o request_code >> ],
                   "need_data", TRUE, <<>>)
        ELSE NodeReturn(
               [ final_response |-> raw_output,
                 next_action |-> "COMPLETE",
                 intermediate_steps |-> << "Support Agent responded." >> ],
               "final", TRUE, <<>>)

\* The request code left unwritten: what call_support_agent would be
\* without line 207.
call_support_agent_request_unwritten(st, text) ==
    LET raw_output == Strip(text)
    IN  IF StartsWith(raw_output, "ROUTING_REQUEST:")
        THEN LET request_code == Strip(AfterFirstColon(raw_output))
             IN  NodeReturn(
                   [ next_action |-> "ROUTER",
                     intermediate_steps |->
                       << "Support requested data: " \o request_code >> ],
                   "need_data", TRUE, <<>>)
        ELSE NodeReturn(
               [ final_response |-> raw_output,
                 next_action |-> "COMPLETE",
                 intermediate_steps |-> << "Support Agent responded." >> ],
               "final", TRUE, <<>>)

\* call_support_agent(state); text is what support_agent.invoke returns.
call_support_agent(st, text) ==
    LET context == st.customer_context
        raw_output == Strip(text)
    IN  IF StartsWith(raw_output, "ROUTING_REQUEST:")
        THEN LET request_code == Strip(AfterFirstColon(raw_output))
             IN  NodeReturn(
                   [ customer_context |-> Put(context, "support_request", request_code),
                     next_action |-> "ROUTER",
                     intermediate_steps |->
                       << "Support requested data: " \o request_code >> ],
                   "need_data", TRUE, <<>>)
        ELSE NodeReturn(
               [ final_response |-> raw_output,
                 next_action |-> "COMPLETE",
                 intermediate_steps |-> << "Support Agent responded." >> ],
               "final", TRUE, <<>>)

----------------------------------------------------------------------------
(* The compiled graph of build_workflow, invoked by run_test_scenario *)

recursion_limit == 15

Nodes == {"router", "data_agent", "support_agent"}

route_decision(st) ==
    LET action == st.next_action
    IN  IF action = "DATA_AGENT" THEN "data_agent"
        ELSE IF action = "SUPPORT_AGENT" THEN "support_agent"
        ELSE IF action = "COMPLETE" THEN "end"
        ELSE "support_agent"

\* Every support step sent back to the router, ROUTING_REQUEST or not.
support_route_always_router(st) == "router"

\* The Response Worker handing its request to the Data Worker itself.
support_route_to_data_agent(st) ==
    LET action == st.next_action
    IN  IF action = "ROUTER" THEN "data_agent" ELSE "end"

support_route_decision(st) ==
    LET action == st.next_action
    IN  IF action = "ROUTER" THEN "router" ELSE "end"

\* Super-steps counted in router invocations only.
SuperstepRouterOnly(node) == IF node = "router" THEN 1 ELSE 0

\* Each node execution is one super-step of app.invoke, whichever node runs.
Superstep(node) == 1

NoResult == [returned |-> FALSE]

NoLast ==
    [ node |-> "none", path |-> "none", consulted |-> FALSE, offered |-> "",
      args |-> EmptyDict, calls |-> <<>>, raised |-> FALSE ]

Did(node, r, offered, args) ==
    [ node |-> node, path |-> r.path, consulted |-> r.consulted,
      offered |-> offered, args |-> args, calls |-> r.calls, raised |-> r.raised ]

\* No MCP exchange, and no run beside the one of `state`.
NoMcp == [phase |-> "none"]

NoRuns == << >>

Init ==
    /\ state \in { initial_state(q) : q \in Queries }
    /\ pc = "router"
    /\ step = 0
    /\ exc = "none"
    /\ result = NoResult
    /\ pre = state
    /\ last = NoLast
    /\ routerCalls = 0
    /\ workerCalls = 0
    /\ mcp = NoMcp
    /\ runs = NoRuns
    /\ store = InitialStore

\* The graph runs node n, which did r, and follows the edge to `next`.
RunNode(n, r, offered, args, next) ==
    /\ pre' = state
    /\ last' = Did(n, r, offered, args)
    /\ step' = step + Superstep(n)
    /\ routerCalls' = IF n = "router" THEN routerCalls + 1 ELSE routerCalls
    /\ workerCalls' = IF n = "router" THEN workerCalls ELSE workerCalls + 1
    /\ result' = result
    /\ UNCHANGED <<mcp, runs, store>>
    /\ IF r.raised
       THEN /\ state' = state
            /\ pc' = "raised"
            /\ exc' = r.error
       ELSE /\ state' = ApplyUpdate(state, r.update)
            /\ pc' = next
            /\ exc' = exc

CallRouter ==
    /\ pc = "router"
    /\ step < recursion_limit
    /\ \E router_output \in RouterOutputsAt(step) :
         LET r == call_router(state, router_output)
         IN  RunNode("router", r, router_output, EmptyDict,
                     route_decision(ApplyUpdate(state, r.update)))

CallDataAgent ==
    /\ pc = "data_agent"
    /\ step < recursion_limit
    /\ \E response \in DataResponsesAt(step), db \in DbOutcomesAt(step) :
         LET r == call_data_agent(state, response, db)
         IN  RunNode("data_agent", r, response.name, response.args, "router")

CallSupportAgent ==
    /\ pc = "support_agent"
    /\ step < recursion_limit
    /\ \E text \in SupportOutputsAt(step) :
         LET r == call_support_agent(state, text)
         IN  RunNode("support_agent", r, text, EmptyDict,
                     support_route_decision(ApplyUpdate(state, r.update)))

\* app.invoke has run recursion_limit super-steps and a node is still to
\* run: the run has not reached END within the limit.
RaiseGraphRecursionError ==
    /\ pc \in Nodes
    /\ step >= recursion_limit
    /\ pc' = "raised"
    /\ exc' = "GraphRecursionError"
    /\ UNCHANGED <<state, step, result, pre, last, routerCalls, workerCalls>>
    /\ UNCHANGED <<mcp, runs, store>>

\* The state handed back instead of initial_state when app.invoke raises.
LastKnownState(st) == st

\* run_test_scenario line 41: what the except branch returns.
ReturnedOnError(st) == initial_state(st.query)

\* run_test_scenario, line 38: app.invoke returned the final state.
ReturnFinalState ==
    /\ pc = "end"
    /\ result' = state
    /\ pc' = "returned"
    /\ UNCHANGED <<state, step, exc, pre, last, routerCalls, workerCalls>>
    /\ UNCHANGED <<mcp, runs, store>>

\* run_test_scenario, lines 39-41: app.invoke raised.
ReturnInitialState ==
    /\ pc = "raised"
    /\ result' = ReturnedOnError(state)
    /\ pc' = "returned"
    /\ UNCHANGED <<state, step, exc, pre, last, routerCalls, workerCalls>>
    /\ UNCHANGED <<mcp, runs, store>>

Next ==
    \/ CallRouter
    \/ CallDataAgent
    \/ CallSupportAgent
    \/ RaiseGraphRecursionError
    \/ ReturnFinalState
    \/ ReturnInitialState

Spec == Init /\ [][Next]_vars

----------------------------------------------------------------------------
(* call_router applied to any AgentState *)

Contexts ==
    LET results == { [error |-> "Data Agent failed to choose a tool."],
                     [success |-> TRUE, customer |-> [id |-> 5]] }
        requests == { "NEED_PROFILE", "" }
        withResult == { Put(EmptyDict, "data_query_result", d) : d \in results }
    IN  {EmptyDict} \cup withResult
        \cup { Put(c, "support_request", q) :
                 c \in {EmptyDict} \cup withResult, q \in requests }

RouterInputs ==
    [ query              : Queries,
      customer_context   : Contexts,
      intermediate_steps : { <<>>, << "Support Agent responded." >> },
      next_action        : { "START", "ROUTER", "COMPLETE" },
      final_response     : { "", "Customer 5 is active." } ]

InitRouter ==
    /\ state \in RouterInputs
    /\ pc = "router"
    /\ step = 0
    /\ exc = "none"
    /\ result = NoResult
    /\ pre = state
    /\ last = NoLast
    /\ routerCalls = 0
    /\ workerCalls = 0
    /\ mcp = NoMcp
    /\ runs = NoRuns
    /\ store = InitialStore

SpecRouter == InitRouter /\ [][CallRouter]_vars

\* Texts of the router LLM that hold several labels, or a label inside a
\* sentence, in either case.
RouterTexts ==
    RouterOutputs \cup
    { "COMPLETE or DATA_AGENT",
      "complete, unless support_agent",
      "Escalate, then complete.",
      "support_agent or data_agent",
      "escalate to SUPPORT_AGENT",
      "I think data_agent should handle this.",
      "incomplete" }

\* The Router node on any AgentState and any of these texts.
CallRouterOnText ==
    /\ pc = "router"
    /\ step < recursion_limit
    /\ \E router_output \in RouterTexts :
         LET r == call_router(state, router_output)
         IN  RunNode("router", r, router_output, EmptyDict,
                     route_decision(ApplyUpdate(state, r.update)))

SpecParse == InitRouter /\ [][CallRouterOnText]_vars

----------------------------------------------------------------------------
(* MCP protocol layer of mcp_server.py, and the client of test.py *)

runVars == <<state, pc, step, exc, result, pre, last, routerCalls, workerCalls>>

\* The variables of the single run when no run of the graph is modelled.
NoRun ==
    /\ state = initial_state("")
    /\ pc = "none"
    /\ step = 0
    /\ exc = "none"
    /\ result = NoResult
    /\ pre = state
    /\ last = NoLast
    /\ routerCalls = 0
    /\ workerCalls = 0

\* A JSON member that may be missing or null: the id and the params of a
\* message.
Absent == [kind |-> "absent"]
JsonNull == [kind |-> "null"]
Value(v) == [kind |-> "value", value |-> v]

\* message.get(key): None for a missing key.
GetOrNone(member) == IF member = Absent THEN JsonNull ELSE member

\* json.dumps(value): the text that encodes the value.
json_dumps(value) == ToString(value)

\* TOOL_FUNCTIONS, lines 265-283: the keys each lambda subscripts, in the
\* order it evaluates them.
ToolSubscripts ==
    [ get_customer         |-> << "customer_id" >>,
      list_customers       |-> << >>,
      update_customer      |-> << "customer_id", "data" >>,
      create_ticket        |-> << "customer_id", "issue" >>,
      get_customer_history |-> << "customer_id" >> ]

TOOL_FUNCTIONS == DOMAIN ToolSubscripts

\* TOOL_FUNCTIONS[tool_name](arguments): KeyError when a subscripted key is
\* missing, else the tool's dict; the other keys of arguments are ignored.
CallToolFunction(tool_name, arguments, db) ==
    LET keys == ToolSubscripts[tool_name]
        missing == { k \in DOMAIN keys : keys[k] \notin DOMAIN arguments }
    IN  IF missing = {}
        THEN [ raised |-> FALSE,
               value |-> ToolReturn(
                           tool_name,
                           [k \in DOMAIN arguments \cap ToolParams[tool_name].all
                              |-> arguments[k]],
                           db),
               error |-> "" ]
        ELSE [ raised |-> TRUE, value |-> EmptyDict,
               error |-> "'" \o keys[CHOOSE k \in missing :
                                       \A other \in missing : k <= other]
                             \o "'" ]

\* What a handler did: the response it returned or the exception it raised,
\* and for the history the tool function it executed and what that returned.
McpReturn(response, executed, tool) ==
    [ raised |-> FALSE, response |-> response, executed |-> executed,
      tool |-> tool ]

McpRaise(error) ==
    [ raised |-> TRUE, response |-> [error |-> error], executed |-> <<>>,
      tool |-> Absent ]

McpError(message, code, text) ==
    [ jsonrpc |-> "2.0", id |-> GetOrNone(message.id),
      error |-> [code |-> code, message |-> text] ]

handle_initialize(message) ==
    McpReturn(
      [ jsonrpc |-> "2.0", id |-> GetOrNone(message.id),
        result |-> [ protocolVersion |-> "2024-11-05",
                     capabilities |-> [tools |-> EmptyDict],
                     serverInfo |-> [ name |-> "customer-service-mcp-server",
                                      version |-> "1.0.0" ] ] ],
      <<>>, Absent)

handle_tools_list(message) ==
    McpReturn(
      [ jsonrpc |-> "2.0", id |-> GetOrNone(message.id),
        result |-> [tools |-> tools_map] ],
      <<>>, Absent)

\* handle_tools_call, lines 286-312. params.get on a null params raises
\* AttributeError before the try block.
handle_tools_call(message, db) ==
    IF message.params = JsonNull
    THEN McpRaise("AttributeError")
    ELSE LET params == IF message.params = Absent
                       THEN EmptyDict
                       ELSE message.params.value
             tool_name == Get(params, "name", "None")
             arguments == Get(params, "arguments", EmptyDict)
         IN  IF tool_name \notin TOOL_FUNCTIONS
             THEN McpReturn(
                    McpError(message, -32601, "Tool not found: " \o tool_name),
                    <<>>, Absent)
             ELSE LET called == CallToolFunction(tool_name, arguments, db)
                  IN  IF called.raised
                      THEN McpReturn(
                             McpError(message, -32603,
                                      "Tool execution error: " \o called.error),
                             <<>>, Absent)
                      ELSE McpReturn(
                             [ jsonrpc |-> "2.0", id |-> GetOrNone(message.id),
                               result |->
                                 [ content |->
                                     << [ type |-> "text",
                                          text |-> json_dumps(called.value) ] >> ] ],
                             << tool_name >>, Value(called.value))

process_mcp_message(message, db) ==
    LET method == message.method
    IN  IF method = "initialize" THEN handle_initialize(message)
        ELSE IF method = "tools/list" THEN handle_tools_list(message)
        ELSE IF method = "tools/call" THEN handle_tools_call(message, db)
        ELSE McpReturn(
               McpError(message, -32601, "Method not found: " \o method),
               <<>>, Absent)

\* test.py, lines 61-66: the structured result the client takes from the
\* payload, None when a subscript fails.
ClientRead(payload) ==
    IF /\ "result" \in DOMAIN payload
       /\ "content" \in DOMAIN payload.result
       /\ Len(payload.result.content) >= 1
       /\ "json" \in DOMAIN payload.result.content[1]
    THEN [parsed |-> TRUE, result_json |-> Value(payload.result.content[1].json)]
    ELSE [parsed |-> FALSE, result_json |-> JsonNull]

\* Messages a client may post: with or without id, of a known or unknown
\* method, with params missing, null or a dict.
Methods == {"initialize", "tools/list", "tools/call", "resources/list"}

ParamDicts ==
    { EmptyDict,
      [name |-> "list_customers", arguments |-> EmptyDict],
      [name |-> "list_customers"],
      [name |-> "get_customer", arguments |-> [customer_id |-> 5]],
      [name |-> "get_customer", arguments |-> EmptyDict],
      [name |-> "create_ticket", arguments |-> [customer_id |-> 5]],
      [name |-> "get_customer_history",
       arguments |-> [customer_id |-> 5, limit |-> 1]],
      [name |-> "delete_customer", arguments |-> [customer_id |-> 5]] }

Messages ==
    [ id     : {Absent, Value(3)},
      method : Methods,
      params : {Absent, JsonNull} \cup { Value(p) : p \in ParamDicts } ]

InitMcp ==
    /\ NoRun
    /\ runs = NoRuns
    /\ store = InitialStore
    /\ mcp \in { [phase |-> "posted", message |-> m] : m \in Messages }

\* mcp_endpoint, lines 329-344: the message processed and the response
\* sent, the parse-error response when process_mcp_message raised.
McpEndpoint ==
    /\ mcp.phase = "posted"
    /\ \E db \in DbOutcomes :
         LET r == process_mcp_message(mcp.message, db)
         IN  mcp' = [ phase |-> "responded",
                      message |-> mcp.message,
                      raised |-> r.raised,
                      executed |-> r.executed,
                      tool |-> r.tool,
                      response |->
                        IF r.raised
                        THEN [ jsonrpc |-> "2.0", id |-> JsonNull,
                               error |-> [ code |-> -32700,
                                           message |-> r.response.error ] ]
                        ELSE r.response ]
    /\ UNCHANGED <<runVars, runs, store>>

\* test.py, lines 51-66: the client reads the structured result.
ClientReads ==
    /\ mcp.phase = "responded"
    /\ mcp' = [ phase |-> "read",
                message |-> mcp.message,
                raised |-> mcp.raised,
                executed |-> mcp.executed,
                tool |-> mcp.tool,
                response |-> mcp.response,
                client |-> ClientRead(mcp.response) ]
    /\ UNCHANGED <<runVars, runs, store>>

NextMcp ==
    \/ McpEndpoint
    \/ ClientReads

SpecMcp == InitMcp /\ [][NextMcp]_vars

----------------------------------------------------------------------------
(* Several runs of run_test_scenario over the one support.db *)

\* Steps a run takes at most here.
MaxRunSteps == 4

RunIds == {1, 2}

RunQueries == { "Get customer information for ID 5" }

RunRouterOutputs == { "DATA_AGENT", "SUPPORT_AGENT" }

RunSupportOutputs == SupportCore

RunResponses ==
    { ToolCall("get_customer", [customer_id |-> 5]),
      ToolCall("update_customer",
               [customer_id |-> 5, data |-> [status |-> "disabled"]]),
      ToolCall("update_customer",
               [customer_id |-> 5, data |-> [id |-> 6]]) }

\* run_test_scenario, lines 22-38: a run has the workflow it built and the
\* state dict it created; read_from is, for the history, the run that wrote
\* the row this run read last (0: the row as it was before the runs).
StartRun(query) ==
    [ state |-> initial_state(query), pc |-> "router", step |-> 0,
      read_from |-> 0 ]

\* A node of the run did r and the edge to `next` is followed.
After(run, r, next, read_from) ==
    IF r.raised
    THEN [run EXCEPT !.pc = "raised", !.step = @ + 1]
    ELSE [ state |-> ApplyUpdate(run.state, r.update), pc |-> next,
           step |-> run.step + 1, read_from |-> read_from ]

\* All runs work on one state dict instead of one each.
AdvanceOneStateForAll(rs, i, run) ==
    [ j \in DOMAIN rs |-> IF j = i THEN run
                          ELSE [rs[j] EXCEPT !.state = run.state] ]

\* app.invoke works on the state of its own run.
Advance(rs, i, run) == [rs EXCEPT ![i] = run]

\* get_customer's SELECT returned the row to the step.
ReadsRow(calls, db) ==
    /\ db.up
    /\ \E k \in DOMAIN calls : calls[k].name = "get_customer" /\ ~calls[k].raised

\* update_customer's UPDATE and commit: the table after the step's calls.
Written(table, calls, db, writer) ==
    LET updates == { k \in DOMAIN calls :
                       /\ calls[k].name = "update_customer"
                       /\ ~calls[k].raised
                       /\ "status" \in DOMAIN calls[k].args.data }
    IN  IF db.up /\ updates # {}
        THEN [ status |-> calls[CHOOSE k \in updates : TRUE].args.data.status,
               writer |-> writer ]
        ELSE table

InitRuns ==
    /\ NoRun
    /\ mcp = NoMcp
    /\ store = InitialStore
    /\ runs \in [RunIds -> { StartRun(q) : q \in RunQueries }]

RunRouter(i) ==
    /\ runs[i].pc = "router"
    /\ runs[i].step < MaxRunSteps
    /\ \E router_output \in RunRouterOutputs :
         LET r == call_router(runs[i].state, router_output)
         IN  runs' = Advance(runs, i,
                       After(runs[i], r,
                             route_decision(ApplyUpdate(runs[i].state, r.update)),
                             runs[i].read_from))
    /\ UNCHANGED <<runVars, mcp, store>>

RunDataAgent(i) ==
    /\ runs[i].pc = "data_agent"
    /\ runs[i].step < MaxRunSteps
    /\ \E response \in RunResponses, up \in BOOLEAN :
         LET db == Database(up, store)
             r == call_data_agent(runs[i].state, response, db)
         IN  /\ runs' = Advance(runs, i,
                          After(runs[i], r, "router",
                                IF ReadsRow(r.calls, db)
                                THEN store.writer
                                ELSE runs[i].read_from))
             /\ store' = Written(store, r.calls, db, i)
    /\ UNCHANGED <<runVars, mcp>>

RunSupportAgent(i) ==
    /\ runs[i].pc = "support_agent"
    /\ runs[i].step < MaxRunSteps
    /\ \E text \in RunSupportOutputs :
         LET r == call_support_agent(runs[i].state, text)
         IN  runs' = Advance(runs, i,
                       After(runs[i], r,
                             support_route_decision(
                               ApplyUpdate(runs[i].state, r.update)),
                             runs[i].read_from))
    /\ UNCHANGED <<runVars, mcp, store>>

NextRuns ==
    \/ \E i \in RunIds : RunRouter(i)
    \/ \E i \in RunIds : RunDataAgent(i)
    \/ \E i \in RunIds : RunSupportAgent(i)

SpecRuns == InitRuns /\ [][NextRuns]_vars

----------------------------------------------------------------------------
(* Properties *)

IsPrefix(s, t) == Len(s) <= Len(t) /\ SubSeq(t, 1, Len(s)) = s

HasRequest(st) == "support_request" \in DOMAIN st.customer_context
HasResult(st) == "data_query_result" \in DOMAIN st.customer_context

\* C1: every run stops either at the COMPLETE terminal or by the step
\* ceiling: a run that is no longer running a node has reached END or was
\* halted by GraphRecursionError, and by nothing else.
C1_StopsAtCompleteOrCeiling ==
    pc \notin Nodes => (exc = "none" \/ exc = "GraphRecursionError")

\* C2: a Router step entered with final_response empty, support_request
\* present and data_query_result absent outputs DATA_AGENT without
\* consulting the soft decision function, whatever that function would
\* have returned.
C2_HardRulePrecedence ==
    ( /\ last.node = "router"
      /\ pre.final_response = ""
      /\ HasRequest(pre)
      /\ ~HasResult(pre) )
    => ( /\ state.next_action = "DATA_AGENT"
         /\ ~last.consulted )

\* The hard rule has fired in a step where the soft decision function would
\* have returned COMPLETE.
C2_Witness ==
    /\ last.node = "router"
    /\ pre.final_response = ""
    /\ HasRequest(pre)
    /\ ~HasResult(pre)
    /\ last.offered = "COMPLETE"
    /\ pc = "data_agent"

\* C3: a Router step entered with a non-empty final_response returns
\* COMPLETE, whatever the rest of the state and whatever the soft decision
\* function would return; it changes nothing else and the graph ends.
C3_FinalResponseCompletes ==
    (last.node = "router" /\ pre.final_response # "")
    => ( /\ state.next_action = "COMPLETE"
         /\ ~last.consulted
         /\ state = [pre EXCEPT !.next_action = "COMPLETE"]
         /\ pc = "end" )

\* The Router has returned COMPLETE for a state that held a final_response
\* and a pending support_request, the soft function offering DATA_AGENT.
C3_Witness ==
    /\ last.node = "router"
    /\ pre.final_response # ""
    /\ HasRequest(pre)
    /\ last.offered = "DATA_AGENT"
    /\ state.next_action = "COMPLETE"

\* C4: every Data Worker step that returns, on whichever return path,
\* returns a context without support_request, so the Router invoked next
\* never sees a pending support_request beside the data_query_result of
\* that step.
C4_DataWorkerAlwaysClears ==
    (last.node = "data_agent" /\ ~last.raised) => ~HasRequest(state)

NoCallRaised(calls) == \A i \in DOMAIN calls : ~calls[i].raised

C6_FinalResponseSetOnce ==
    [][ state.final_response # ""
        => ( /\ state'.final_response = state.final_response
             /\ step' = step
             /\ routerCalls' = routerCalls
             /\ workerCalls' = workerCalls ) ]_vars

\* A run has ended with the final_response the Response Worker set.
C6_Witness ==
    /\ state.final_response # ""
    /\ last.node = "support_agent"
    /\ pc = "returned"
    /\ result = state

\* C7 as stated: the ceiling counts Router invocations, so a run halted by
\* the ceiling of 15 has passed 15 Router invocations.
C7_CeilingCountsRouterInvocations ==
    exc = "GraphRecursionError" => routerCalls >= 15

\* C7 as amended: the ceiling counts node executions, Router and workers
\* alike. A run is halted by the ceiling exactly when its first 15 node
\* executions do not bring it to END; it has then made 8 Router invocations.
C7_CeilingCountsNodeExecutions ==
    /\ step = routerCalls + workerCalls
    /\ step <= 15
    /\ exc = "GraphRecursionError" => (step = 15 /\ routerCalls = 8)
    /\ (pc \in Nodes /\ step = 15)
         => ( /\ ENABLED RaiseGraphRecursionError
              /\ ~ENABLED CallRouter
              /\ ~ENABLED CallDataAgent
              /\ ~ENABLED CallSupportAgent )
    /\ (pc \in Nodes /\ step < 15) => ~ENABLED RaiseGraphRecursionError

\* A run has been halted by the ceiling after 8 Router and 7 worker steps.
C7_Witness ==
    /\ exc = "GraphRecursionError"
    /\ routerCalls = 8
    /\ workerCalls = 7

\* C8 as stated: a run halted by the ceiling returns its last known state:
\* the context, trail and next_action accumulated up to the halt.
C8_ReturnsLastKnownState ==
    (pc = "returned" /\ exc = "GraphRecursionError")
    => ( /\ result.customer_context = state.customer_context
         /\ result.intermediate_steps = state.intermediate_steps
         /\ result.next_action = state.next_action )

\* C8 as amended: a run halted by the ceiling returns the initial state of
\* the run: the query, an empty context, an empty trail, next_action START
\* and an empty final_response, with no key marking the failure; what the
\* run accumulated is dropped.
C8_ReturnsInitialState ==
    (pc = "returned" /\ exc = "GraphRecursionError")
    => ( /\ DOMAIN result = StateKeys
         /\ result.query = state.query
         /\ result.customer_context = EmptyDict
         /\ result.intermediate_steps = <<>>
         /\ result.next_action = "START"
         /\ result.final_response = ""
         /\ Len(state.intermediate_steps) = 15 )

\* A run halted by the ceiling has returned, its last known state holding a
\* data_query_result and a trail.
C8_Witness ==
    /\ pc = "returned"
    /\ exc = "GraphRecursionError"
    /\ HasResult(state)
    /\ state.intermediate_steps # <<>>
    /\ result.intermediate_steps = <<>>

C10_TrailAppendOnly ==
    [][ IsPrefix(state.intermediate_steps, state'.intermediate_steps) ]_vars

\* Router, Response Worker, Router and Data Worker have each appended their
\* entry to the trail.
C10_Witness ==
    /\ Len(state.intermediate_steps) = 4
    /\ last.node = "data_agent"
    /\ IsPrefix(pre.intermediate_steps, state.intermediate_steps)
    /\ Len(pre.intermediate_steps) = 3

Workers == {"data_agent", "support_agent"}

OtherWorker(w) == IF w = "data_agent" THEN "support_agent" ELSE "data_agent"

\* C11: whenever the Response Worker has emitted NEED_DATA, control goes to
\* the Router, the Router's next decision is DATA_AGENT by the hard rule
\* (the soft decision function is not consulted), and the node executed
\* after that Router step is the Data Worker: never the Response Worker
\* again and never the end of the run by COMPLETE.
C11_NeedDataGoesToDataWorker ==
    [][ /\ (last.node = "support_agent" /\ last.path = "need_data")
             => ( /\ pc = "router" \/ exc = "GraphRecursionError"
                  /\ step' # step
                       => ( /\ last'.node = "router"
                            /\ last'.path = "hard"
                            /\ ~last'.consulted
                            /\ state'.next_action = "DATA_AGENT"
                            /\ pc' = "data_agent" ) )
        /\ (last.node = "router" /\ last.path = "hard" /\ step' # step)
             => last'.node = "data_agent" ]_vars

\* Router, Response Worker (NEED_DATA), Router (hard rule) and Data Worker
\* have run in that order.
C11_Witness ==
    /\ step = 4
    /\ last.node = "data_agent"
    /\ HasRequest(pre)
    /\ pre.next_action = "DATA_AGENT"
    /\ Len(pre.intermediate_steps) = 3
    /\ StartsWith(pre.intermediate_steps[2], "Support requested data: ")
    /\ StartsWith(pre.intermediate_steps[3], "Router hard-rule: ")

\* C12 as stated: every worker step that does not end the run changes the
\* context, and the Router step after it routes to the other worker, so that
\* the same worker is never invoked in two consecutive cycles.
C12_ProgressPerCycle ==
    [][ (last.node \in Workers /\ ~last.raised /\ step' # step)
          => ( /\ state.customer_context # pre.customer_context
               /\ pc' = OtherWorker(last.node) ) ]_vars

\* C12 as amended: a Response Worker step that returns FINAL ends the run; a
\* Response Worker step that returns NEED_DATA adds support_request to the
\* context and the next worker invoked is the Data Worker; a Data Worker step
\* that returns writes data_query_result, and the next worker is the Data
\* Worker again when support_request is still pending and otherwise whatever
\* the soft decision names; a Data Worker step that raises ends the run.
C12_ProgressOrRepeat ==
    [][ /\ (last.node = "support_agent" /\ last.path = "final")
             => (pc \in {"end", "returned"} /\ step' = step)
        /\ (last.node = "support_agent" /\ last.path = "need_data")
             => ( /\ HasRequest(state)
                  /\ ~HasRequest(pre)
                  /\ step' # step => pc' = "data_agent" )
        /\ (last.node = "data_agent" /\ ~last.raised)
             => ( /\ HasResult(state)
                  /\ (step' # step /\ HasRequest(state)) => pc' = "data_agent"
                  /\ (step' # step /\ ~HasRequest(state))
                       => pc' = route_decision(
                                  [next_action |-> ParseDecision(last'.offered)]) )
        /\ (last.node = "data_agent" /\ last.raised) => step' = step ]_vars

\* The Data Worker has run in two consecutive cycles: it ran on a context
\* that held a data_query_result and no support_request, which only a Data
\* Worker step of the cycle before leaves behind.
C12_Witness ==
    /\ last.node = "data_agent"
    /\ ~last.raised
    /\ HasResult(pre)
    /\ ~HasRequest(pre)
    /\ pre.next_action = "DATA_AGENT"
    /\ pc = "router"

\* No Response Worker step has asked for data so far in the run.
SupportNeverAsked(st) ==
    \A i \in DOMAIN st.intermediate_steps :
        ~StartsWith(st.intermediate_steps[i], "Support requested data: ")

\* C13 as stated, for runs without any SUPPORT_AGENT/ROUTER oscillation (the
\* Response Worker has asked for nothing): the state presented to the Router
\* after a worker step differs, in context or final_response, from the state
\* presented to the Router at its invocation before that step (the Router
\* passes on the context and final_response it was given, so that state is
\* the one the worker step started from).
C13_NoIdenticalStateTwice ==
    ( /\ last.node \in Workers
      /\ ~last.raised
      /\ pc = "router"
      /\ SupportNeverAsked(state) )
    => ( \/ state.customer_context # pre.customer_context
         \/ state.final_response # pre.final_response )

\* C13 as amended: the Router leaves context and final_response as they
\* are; the Response Worker is never invoked with a pending support_request,
\* and its NEED_DATA step adds one, so the state the Router sees after it
\* differs from the state it saw before; a Data Worker step can hand the
\* Router the very state of its previous invocation, by writing the
\* data_query_result that was already there, and when a support_request was
\* pending only on the paths that keep it (no tool selected, list_customers
\* raised).
C13_IdenticalStateOnlyAfterDataWorker ==
    /\ (last.node = "router" /\ ~last.raised)
         => ( /\ state.customer_context = pre.customer_context
              /\ state.final_response = pre.final_response )
    /\ last.node = "support_agent" => ~HasRequest(pre)
    /\ (last.node = "support_agent" /\ last.path = "need_data")
         => ( /\ HasRequest(state)
              /\ state.customer_context # pre.customer_context )
    /\ ( /\ last.node = "data_agent"
         /\ ~last.raised
         /\ state.customer_context = pre.customer_context )
         => ( /\ HasResult(pre)
              /\ HasRequest(pre)
                   => last.path \in {"no_tool", "composite_list_error"} )

\* In a run in which the Response Worker was never invoked, a Data Worker
\* step has handed the Router the state of its previous invocation.
C13_Witness ==
    /\ last.node = "data_agent"
    /\ ~last.raised
    /\ pc = "router"
    /\ SupportNeverAsked(state)
    /\ state.customer_context = pre.customer_context
    /\ state.final_response = pre.final_response
    /\ routerCalls = 2
    /\ workerCalls = 2

DataResult(st) == st.customer_context["data_query_result"]

\* C14: a Data Worker step whose decision function selected no tool calls
\* no tool, writes an error value into data_query_result and returns
\* control to the Router.
C14_NoToolSelected ==
    (last.node = "data_agent" /\ last.offered = "")
    => ( /\ ~last.raised
         /\ last.path = "no_tool"
         /\ last.calls = <<>>
         /\ HasResult(state)
         /\ IsError(DataResult(state))
         /\ DataResult(state) = [error |-> "Data Agent failed to choose a tool."]
         /\ pc = "router" \/ exc = "GraphRecursionError" )

\* The Data Worker, given no tool call, has written the error and the
\* Router is next.
C14_Witness ==
    /\ last.node = "data_agent"
    /\ last.offered = ""
    /\ ~HasResult(pre)
    /\ IsError(DataResult(state))
    /\ pc = "router"

\* The Data Worker step selected a tool that is not registered, or whose
\* call raised on its arguments.
ToolRefused(l) ==
    /\ l.node = "data_agent"
    /\ l.offered # ""
    /\ l.calls = <<>> \/ ~NoCallRaised(l.calls)

\* C15 as stated: when the selected tool is not registered or rejects its
\* arguments, the Data Worker stores an error result in data_query_result,
\* the run continues to the Router, and the Router's decision routes to the
\* Response Worker.
C15_RefusedToolGoesToSupport ==
    [][ ToolRefused(last)
          => ( /\ ~last.raised
               /\ HasResult(state)
               /\ IsError(DataResult(state))
               /\ pc = "router" \/ exc = "GraphRecursionError"
               /\ step' # step => pc' = "support_agent" ) ]_vars

\* C15 as amended: when the selected tool is not registered or rejects its
\* arguments, the Data Worker stores an error result in data_query_result
\* and the run continues to the Router; the Router's decision is DATA_AGENT
\* by the hard rule when support_request is still pending, and otherwise
\* the action the soft decision function names, which routes to the
\* Response Worker only if that action is SUPPORT_AGENT (or ESCALATE, or
\* none).
C15_RefusedToolGoesToRouter ==
    [][ ToolRefused(last)
          => ( /\ ~last.raised
               /\ HasResult(state)
               /\ IsError(DataResult(state))
               /\ pc = "router" \/ exc = "GraphRecursionError"
               /\ step' # step
                    => ( /\ last'.node = "router"
                         /\ IF HasRequest(state)
                            THEN ~last'.consulted /\ pc' = "data_agent"
                            ELSE /\ last'.consulted
                                 /\ state'.next_action = ParseDecision(last'.offered)
                                 /\ pc' = route_decision(state') ) ) ]_vars

\* After the Data Worker stored the error of a refused tool, the Router has
\* ended the run on the soft decision COMPLETE, no Response Worker invoked
\* and final_response empty.
C15_Witness ==
    /\ last.node = "router"
    /\ last.consulted
    /\ HasResult(pre)
    /\ IsError(DataResult(pre))
    /\ StartsWith(DataResult(pre).error, "Tool ")
    /\ state.next_action = "COMPLETE"
    /\ pc = "end"
    /\ state.final_response = ""

\* The text names none of the four actions, in whatever case.
NamesNoAction(text) ==
    \A name \in {"DATA_AGENT", "SUPPORT_AGENT", "COMPLETE", "ESCALATE"} :
        ~Contains(Upper(text), name)

\* C16: for every soft-decision output that names none of DATA_AGENT,
\* SUPPORT_AGENT, COMPLETE, ESCALATE (the empty string included), the Router
\* returns SUPPORT_AGENT and the graph goes on to the Response Worker
\* rather than halting.
C16_UnparseableDefaultsToSupport ==
    (last.node = "router" /\ last.consulted /\ NamesNoAction(last.offered))
    => ( /\ ~last.raised
         /\ state.next_action = "SUPPORT_AGENT"
         /\ pc = "support_agent" \/ exc = "GraphRecursionError" )

\* The soft decision function returned the empty string and the Response
\* Worker is next.
C16_Witness ==
    /\ last.node = "router"
    /\ last.consulted
    /\ last.offered = ""
    /\ state.next_action = "SUPPORT_AGENT"
    /\ pc = "support_agent"

RoutingPrefix == "ROUTING_REQUEST:"

\* The text after the first Len(prefix) characters of s.
Remainder(s, prefix) == SubSeq(s, Len(prefix) + 1, Len(s))

\* C17 as stated: the Response Worker returns NEED_DATA exactly when the raw
\* text of its decision function starts with ROUTING_REQUEST:, the request
\* code being the trimmed remainder; otherwise it returns FINAL with the
\* entire raw text as the answer.
C17_PrefixOfRawText ==
    last.node = "support_agent"
    => ( /\ last.path = "need_data" <=> StartsWith(last.offered, RoutingPrefix)
         /\ last.path = "need_data"
              => state.customer_context["support_request"]
                   = Strip(Remainder(last.offered, RoutingPrefix))
         /\ last.path # "need_data" => state.final_response = last.offered )

\* C17 as amended: the raw text is first trimmed of leading and trailing
\* whitespace. The Response Worker returns NEED_DATA exactly when the
\* trimmed text starts with ROUTING_REQUEST:, the request code being the
\* trimmed remainder of the trimmed text; otherwise it returns FINAL with
\* the trimmed text as the answer.
C17_PrefixOfTrimmedText ==
    last.node = "support_agent"
    => LET raw_output == Strip(last.offered)
       IN  /\ ~last.raised
           /\ last.path \in {"need_data", "final"}
           /\ last.path = "need_data" <=> StartsWith(raw_output, RoutingPrefix)
           /\ last.path = "need_data"
                => ( /\ HasRequest(state)
                     /\ state.customer_context["support_request"]
                          = Strip(Remainder(raw_output, RoutingPrefix))
                     /\ state.final_response = "" )
           /\ last.path = "final" => state.final_response = raw_output

\* A text with whitespace before ROUTING_REQUEST: and after the code has
\* been taken as NEED_DATA with the trimmed code.
C17_Witness ==
    /\ last.node = "support_agent"
    /\ last.offered = "\n ROUTING_REQUEST: need_customer_profile "
    /\ last.path = "need_data"
    /\ state.customer_context["support_request"] = "need_customer_profile"

\* C18: a Response Worker step that returns FINAL sets final_response to the
\* text and next_action to COMPLETE, leaves the context unchanged, and the
\* run ends; one that returns NEED_DATA sets context.support_request to the
\* code and next_action to ROUTER, leaves final_response and every other
\* context key unchanged, and the Router is next.
C18_SupportStepEffect ==
    /\ (last.node = "support_agent" /\ last.path = "final")
         => ( /\ state.final_response = Strip(last.offered)
              /\ state.next_action = "COMPLETE"
              /\ state.customer_context = pre.customer_context
              /\ state.query = pre.query
              /\ pc \in {"end", "returned"}
              /\ exc = "none" )
    /\ (last.node = "support_agent" /\ last.path = "need_data")
         => ( /\ HasRequest(state)
              /\ state.customer_context["support_request"]
                   = Strip(Remainder(Strip(last.offered), RoutingPrefix))
              /\ state.next_action = "ROUTER"
              /\ state.final_response = pre.final_response
              /\ state.query = pre.query
              /\ DOMAIN state.customer_context
                   = DOMAIN pre.customer_context \cup {"support_request"}
              /\ \A k \in DOMAIN pre.customer_context \ {"support_request"} :
                     state.customer_context[k] = pre.customer_context[k]
              /\ pc = "router" \/ exc = "GraphRecursionError" )

\* A NEED_DATA step has added support_request beside a data_query_result
\* that it left as it was, and the Router is next.
C18_Witness ==
    /\ last.node = "support_agent"
    /\ last.path = "need_data"
    /\ HasResult(pre)
    /\ ~HasRequest(pre)
    /\ HasResult(state)
    /\ DataResult(state) = DataResult(pre)
    /\ state.customer_context["support_request"] = "NEED_BILLING_INFO"
    /\ pc = "router"

\* The pending support_request indicates a profile need.
ProfileNeed(st) ==
    /\ HasRequest(st)
    /\ Contains(Upper(st.customer_context["support_request"]), "PROFILE")

\* The conditions of the override rule hold for the Data Worker step l
\* taken from state st.
OverrideApplies(st, l) ==
    /\ ProfileNeed(st)
    /\ l.offered # "get_customer"
    /\ "customer_id" \in DOMAIN l.args

C20_CompositeAggregation ==
    ( /\ last.node = "data_agent"
      /\ Contains(Lower(pre.query), "ticket")
      /\ last.calls # <<>>
      /\ last.calls[1].name = "list_customers"
      /\ ~last.calls[1].raised )
    => ( /\ ~last.raised
         /\ HasResult(state)
         /\ DOMAIN DataResult(state) = {"type", "customers"}
         /\ DataResult(state).type = "customer_ticket_summary" )

Trail(i) == state.intermediate_steps[i]

\* The run so far is the end-to-end scenario: soft decision DATA_AGENT,
\* get_customer executed, soft decision SUPPORT_AGENT, FINAL with a text.
Scenario21 ==
    /\ step = 4
    /\ Len(state.intermediate_steps) = 4
    /\ StartsWith(Trail(1), "Router Decision: DATA_AGENT")
    /\ Trail(2) = "Executed get_customer"
    /\ StartsWith(Trail(3), "Router Decision: SUPPORT_AGENT")
    /\ last.node = "support_agent"
    /\ last.path = "final"
    /\ Strip(last.offered) # ""

AskedProfileFirst ==
    /\ Len(state.intermediate_steps) >= 2
    /\ StartsWith(Trail(1), "Router Decision: SUPPORT_AGENT")
    /\ Trail(2) = "Support requested data: NEED_PROFILE"

\* The run so far is the negotiation round trip: soft decision
\* SUPPORT_AGENT, NEED_PROFILE, hard rule, get_customer executed, soft
\* decision SUPPORT_AGENT, FINAL.
Scenario22 ==
    /\ step = 6
    /\ Len(state.intermediate_steps) = 6
    /\ AskedProfileFirst
    /\ StartsWith(Trail(3), "Router hard-rule: ")
    /\ Trail(4) = "Executed get_customer"
    /\ StartsWith(Trail(5), "Router Decision: SUPPORT_AGENT")
    /\ last.node = "support_agent"
    /\ last.path = "final"

EmptyCodePending(st) ==
    HasRequest(st) /\ st.customer_context["support_request"] = ""

\* C23: when the Response Worker emits ROUTING_REQUEST: with an empty code,
\* support_request becomes present with the empty code, the Router hard
\* rule routes to the Data Worker, and the Data Worker step then completes
\* on the non-override path, executing the tool its decision function chose.
C23_EmptyCodeFallsThrough ==
    /\ (last.node = "support_agent" /\ Strip(last.offered) = RoutingPrefix)
         => (last.path = "need_data" /\ EmptyCodePending(state))
    /\ (last.node = "router" /\ EmptyCodePending(pre))
         => ( /\ last.path = "hard"
              /\ pc = "data_agent" \/ exc = "GraphRecursionError" )
    /\ (last.node = "data_agent" /\ EmptyCodePending(pre) /\ last.offered # "")
         => ( /\ ~last.raised
              /\ last.path # "override"
              /\ last.offered \in tools_map
                   => ( /\ last.calls # <<>>
                        /\ last.calls[1].name = last.offered
                        /\ last.calls[1].args = last.args ) )

\* C24: a soft decision of ESCALATE gives the transition a SUPPORT_AGENT
\* decision would give: next_action SUPPORT_AGENT, the rest of the state as
\* call_router leaves it for SUPPORT_AGENT (the trail entry naming the raw
\* text ESCALATE), and the Response Worker next.
C24_EscalateAsSupport ==
    (last.node = "router" /\ last.consulted /\ last.offered = "ESCALATE")
    => ( /\ state.next_action = "SUPPORT_AGENT"
         /\ state
              = [ ApplyUpdate(pre, call_router(pre, "SUPPORT_AGENT").update)
                    EXCEPT !.intermediate_steps =
                      pre.intermediate_steps
                        \o << "Router Decision: SUPPORT_AGENT (Raw: ESCALATE)" >> ]
         /\ pc = "support_agent" \/ exc = "GraphRecursionError" )

\* After the soft decision ESCALATE the Response Worker has run.
C24_Witness ==
    /\ last.node = "support_agent"
    /\ pre.next_action = "SUPPORT_AGENT"
    /\ Len(pre.intermediate_steps) >= 1
    /\ pre.intermediate_steps[Len(pre.intermediate_steps)]
         = "Router Decision: SUPPORT_AGENT (Raw: ESCALATE)"

\* C27: a Router step changes nothing but next_action and the trail, to
\* which it appends at most one entry: query, every key of the context and
\* final_response are as before, and no tool is called.
C27_RouterFrame ==
    last.node = "router"
    => ( /\ ~last.raised
         /\ last.calls = <<>>
         /\ state.query = pre.query
         /\ state.customer_context = pre.customer_context
         /\ state.final_response = pre.final_response
         /\ IsPrefix(pre.intermediate_steps, state.intermediate_steps)
         /\ Len(state.intermediate_steps) <= Len(pre.intermediate_steps) + 1
         /\ DOMAIN state = StateKeys )

\* The Router has taken its hard rule on a context that holds both reserved
\* keys and has left both as they were.
C27_Witness ==
    /\ last.node = "router"
    /\ last.path = "hard"
    /\ HasRequest(pre)
    /\ HasResult(pre)
    /\ state.customer_context = pre.customer_context
    /\ state.next_action = "DATA_AGENT"

\* C28: a step that adds or changes data_query_result is a Data Worker
\* step, a step that adds or changes support_request is a Response Worker
\* step, a step that removes support_request is a Data Worker step, and no
\* step removes data_query_result.
C28_ReservedKeyOwnership ==
    [][ /\ ( /\ HasResult(state')
             /\ ~HasResult(state) \/ DataResult(state') # DataResult(state) )
             => (last'.node = "data_agent" /\ step' = step + 1)
        /\ ( /\ HasRequest(state')
             /\ \/ ~HasRequest(state)
                \/ state'.customer_context["support_request"]
                     # state.customer_context["support_request"] )
             => (last'.node = "support_agent" /\ step' = step + 1)
        /\ (HasRequest(state) /\ ~HasRequest(state'))
             => (last'.node = "data_agent" /\ step' = step + 1)
        /\ HasResult(state) => HasResult(state') ]_vars

\* A Data Worker step has removed the support_request a Response Worker
\* step had added, and has replaced the data_query_result of an earlier
\* Data Worker step.
C28_Witness ==
    /\ last.node = "data_agent"
    /\ HasRequest(pre)
    /\ HasResult(pre)
    /\ ~HasRequest(state)
    /\ DataResult(state) # DataResult(pre)

\* C29: every worker step comes right after a Router step, and the step
\* right after a Data Worker step is a Router step.
C29_WorkersOnlyThroughRouter ==
    [][ step' # step
          => ( /\ last'.node \in Workers => last.node = "router"
               /\ last'.node = "router" => last.node \in Workers \cup {"none"}
               /\ last.node = "data_agent" => last'.node = "router"
               /\ last.node = "support_agent" => last'.node = "router" ) ]_vars

\* Data Worker, Router, Response Worker, Router and Data Worker again have
\* run in that order.
C29_Witness ==
    /\ step = 6
    /\ last.node = "data_agent"
    /\ StartsWith(Trail(2), "Executed ")
    /\ StartsWith(Trail(4), "Support requested data: ")
    /\ StartsWith(Trail(5), "Router hard-rule: ")

\* C30: a run that has ended at the COMPLETE terminal, not by the step
\* ceiling or an exception, has a non-empty final_response.
C30_CompleteHasAnswer ==
    (pc \in {"end", "returned"} /\ exc = "none") => state.final_response # ""

\* C26: for a tools/call message naming a registered tool whose function
\* returned, content[0] of the response's result carries the tool's
\* structured result under the key json, and the client reads it there.
C26_ResultUnderJsonKey ==
    ( /\ mcp.phase = "read"
      /\ mcp.message.method = "tools/call"
      /\ mcp.tool # Absent )
    => ( /\ "result" \in DOMAIN mcp.response
         /\ "json" \in DOMAIN mcp.response.result.content[1]
         /\ mcp.response.result.content[1].json = mcp.tool.value
         /\ mcp.client.parsed
         /\ mcp.client.result_json = mcp.tool )

Labels == << "DATA_AGENT", "SUPPORT_AGENT", "ESCALATE", "COMPLETE" >>

ActionOf(label) == IF label = "ESCALATE" THEN "SUPPORT_AGENT" ELSE label

LabelsIn(text) == { k \in DOMAIN Labels : Contains(Upper(text), Labels[k]) }

FirstLabelIn(text) ==
    Labels[CHOOSE k \in LabelsIn(text) : \A other \in LabelsIn(text) : k <= other]

\* C31: when the Router consulted the soft decision and its output contains
\* one or more of the labels, in any case and anywhere in the text, the
\* decision is that of the first label it contains in the order DATA_AGENT,
\* SUPPORT_AGENT, ESCALATE, COMPLETE.
C31_LabelPriority ==
    ( /\ last.node = "router"
      /\ last.path = "soft"
      /\ LabelsIn(last.offered) # {} )
    => state.next_action = ActionOf(FirstLabelIn(last.offered))

\* The soft decision held several labels, one of lower priority first in the
\* text and in lower case, and the higher one was taken.
C31_Witness ==
    /\ last.node = "router"
    /\ last.path = "soft"
    /\ last.offered = "complete, unless support_agent"
    /\ LabelsIn(last.offered) = {2, 4}
    /\ state.next_action = "SUPPORT_AGENT"

\* The tool a message names: params.get("name"), None without params.
NamedTool(message) ==
    IF message.params \in {Absent, JsonNull}
    THEN "None"
    ELSE Get(message.params.value, "name", "None")

\* C32: every message handed to process_mcp_message gets a response from it
\* that echoes the id of the message and has exactly one of result and error;
\* an unknown method and an unknown tool give error -32601 and no tool
\* function is executed for them; a registered tool that raised gives -32603.
C32_EveryMessageAnswered ==
    mcp.phase \in {"responded", "read"} =>
      LET message == mcp.message
          response == mcp.response
          IsErrorCode(code) ==
              "error" \in DOMAIN response /\ response.error.code = code
      IN  /\ ~mcp.raised
          /\ response.id = GetOrNone(message.id)
          /\ ("result" \in DOMAIN response) # ("error" \in DOMAIN response)
          /\ message.method \notin {"initialize", "tools/list", "tools/call"}
               => IsErrorCode(-32601) /\ mcp.executed = <<>>
          /\ ( message.method = "tools/call"
               /\ NamedTool(message) \notin TOOL_FUNCTIONS )
               => IsErrorCode(-32601) /\ mcp.executed = <<>>
          /\ ( message.method = "tools/call"
               /\ NamedTool(message) \in TOOL_FUNCTIONS
               /\ mcp.tool = Absent )
               => IsErrorCode(-32603)

====
